---- MODULE Spec2Model ----
(***************************************************************************)
(* A model of llm_studio/src/utils/modeling_utils.py: the token stopping   *)
(* criteria used during generation, the disk-space preflight, checkpoint   *)
(* saving under the sharded (deepspeed) and the standard strategy, weight  *)
(* loading with the strict / non-strict fallback, the per-step barrier and *)
(* the NaN check of the inference loop, and the discovery of the LoRA      *)
(* target modules.                                                         *)
(*                                                                         *)
(* Each subsystem has its own variables and its own specification; a       *)
(* specification keeps the variables of the other subsystems at their idle *)
(* values.                                                                 *)
(***************************************************************************)
EXTENDS Integers, Sequences, FiniteSets, TLC

VARIABLES
    \* TokenStoppingCriteria and the generation loop that calls it
    stop_word_ids,          \* self.stop_word_ids: a sequence of stop words
    prompt_input_ids_len,   \* self.prompt_input_ids_len
    input_ids,              \* the matrix handed to __call__: prompt + generated
    stop_result,            \* what the last __call__ returned ("none" before any)
    stop_warned,            \* the first-token warning was logged
    \* check_disk_space
    disk_params,            \* model.parameters(): a sequence of [dtype, numel]
    disk_free,              \* free, of shutil.disk_usage(path)
    disk_use_deepspeed,     \* the use_deepspeed argument
    disk_outcome,           \* "none" before the call, then "passed" or "raised"
    \* save_checkpoint, one call per process of the run
    use_deepspeed,          \* cfg.environment.use_deepspeed
    path_given,             \* path is not None
    classification,         \* cfg.problem_type == "text_causal_classification_modeling"
    save_model,             \* the parameters of the model being saved
    save_free,              \* free bytes at the destination
    save_pc,                \* where each process is
    save_preflight,         \* per process: the outcome of its preflight
    checkpoint_bound,       \* per process: the local `checkpoint` is assigned
    collective_calls,       \* per process: calls of model.save_checkpoint
    files,                  \* what exists under the destination path
    writes,                 \* every write under the destination path so far
    \* load_model_weights
    load_model,             \* model.state_dict(): the live entries, in order
    load_weights,           \* model_weights: the snapshot entries, in order
    load_strict,            \* the strict argument of the caller
    backbone_dtype,         \* cfg.architecture.backbone_dtype
    load_rank,              \* cfg.environment._local_rank
    load_pc,                \* "unsaved", "ready" (snapshot at hand), "done"
    load_result,            \* what the call did, field by field
    \* run_inference, one call per process
    inf_distributed,        \* cfg.environment._distributed
    inf_len,                \* per process: len(dataloader)
    inf_fault,              \* per process: the step that raises, if any, and why
    inf_pc,                 \* per process: where it is in the loop
    inf_started,            \* per process: steps whose batch was fetched
    inf_completed,          \* per process: steps whose output was stored
    inf_arrived,            \* per process: calls of torch.distributed.barrier()
    \* the NaN check of an inference step
    nan_output,             \* output: the values of the step's output dict
    nan_mixed_precision,    \* cfg.environment.mixed_precision
    nan_outcome,             \* "none" before the check, then "passed" or "raised"
    \* a run of calls of the stopping criteria on a growing matrix
    run_results,             \* what each successive __call__ returned, in order
    \* prepare_lora
    lora_modules,           \* backbone.named_modules(): [name, kind] in traversal order
    lora_configured,        \* the items of cfg.training.lora_target_modules, <<>> when it is empty
    lora_targets,           \* target_modules handed to LoraConfig
    lora_pc                 \* "start", then "done"

stopVars == <<stop_word_ids, prompt_input_ids_len, input_ids, stop_result, stop_warned>>
diskVars == <<disk_params, disk_free, disk_use_deepspeed, disk_outcome>>

saveVars == <<use_deepspeed, path_given, classification, save_model, save_free, save_pc,
              save_preflight, checkpoint_bound, collective_calls, files, writes>>

loadVars == <<load_model, load_weights, load_strict, backbone_dtype, load_rank, load_pc,
              load_result>>

infVars == <<inf_distributed, inf_len, inf_fault, inf_pc, inf_started, inf_completed,
             inf_arrived>>

nanVars == <<nan_output, nan_mixed_precision, nan_outcome>>

runVars == <<run_results>>

loraVars == <<lora_modules, lora_configured, lora_targets, lora_pc>>

vars == <<stopVars, diskVars, saveVars, loadVars, infVars, nanVars, runVars, loraVars>>

\* what an action of one subsystem leaves alone
notStop == <<diskVars, saveVars, loadVars, infVars, nanVars, runVars, loraVars>>
notDisk == <<stopVars, saveVars, loadVars, infVars, nanVars, runVars, loraVars>>
notSave == <<stopVars, diskVars, loadVars, infVars, nanVars, runVars, loraVars>>
notLoad == <<stopVars, diskVars, saveVars, infVars, nanVars, runVars, loraVars>>
notInf == <<stopVars, diskVars, saveVars, loadVars, nanVars, runVars, loraVars>>
notNan == <<stopVars, diskVars, saveVars, loadVars, infVars, runVars, loraVars>>
notRun == <<stopVars, diskVars, saveVars, loadVars, infVars, nanVars, loraVars>>
notLora == <<stopVars, diskVars, saveVars, loadVars, infVars, nanVars, runVars>>

----------------------------------------------------------------------------
(* Bounds *)

MaxGenLen == 3        \* generated columns (max_new_tokens)
MaxStopLen == 2       \* ids of a 1-D stop word
MaxParams == 2        \* parameters of the model whose size is estimated
MaxFree == 104        \* free bytes on the disk
NumRanks == 2         \* processes of the run (_local_rank 0 .. NumRanks - 1)
MaxSnapshot == 2      \* entries of a loaded snapshot
MaxBatches == 2       \* batches of an inference dataloader
MaxTensorLen == 2     \* elements of a tensor of an inference output
MaxRunLen == 5        \* calls of the stopping criteria in a followed run
MaxModules == 2       \* sub-modules of the backbone

Tokens == {0, 1}
BatchSizes == {1, 2}       \* rows of a batch
PromptLens == {0, 1}       \* prompt columns
StopWordCounts == {0, 1, 2}  \* stop words in the set

\* all sequences over S of length lo..hi
SeqsOf(S, lo, hi) == UNION {[1..n -> S] : n \in lo..hi}

----------------------------------------------------------------------------
(* TokenStoppingCriteria *)

\* A stop word is a tensor: 0-dimensional (scalar: one id) or 1-dimensional.
ScalarWord(t) == [scalar |-> TRUE, ids |-> <<t>>]
VectorWord(v) == [scalar |-> FALSE, ids |-> v]
StopWords == {ScalarWord(t) : t \in Tokens}
             \cup {VectorWord(v) : v \in SeqsOf(Tokens, 0, MaxStopLen)}

\* a bug a reader could make: the prompt columns are not cut off
generated_ids_whole(ids, plen) == ids

\* input_ids[:, self.prompt_input_ids_len:]
generated_ids_of(ids, plen) ==
    [r \in 1..Len(ids) |-> [c \in 1..(IF Len(ids[r]) > plen THEN Len(ids[r]) - plen ELSE 0)
                               |-> ids[r][plen + c]]]

\* torch.all(row[i : i + len(vector)] == vector), i counted from 0
WindowMatches(row, vector, i) ==
    \A j \in 1..Len(vector) : row[i + j] = vector[j]

\* the inner loop: for i in range(len(row) - len(vector) + 1): ... break
RowFound(row, vector) ==
    \E i \in 0..(Len(row) - Len(vector)) : WindowMatches(row, vector, i)

\* found: the number of rows in which the vector is found
get_num_vector_found_in_matrix_rows(vector, matrix) ==
    Cardinality({r \in 1..Len(matrix) : RowFound(matrix[r], vector)})

\* ((generated_ids == stop_word_id).sum(1) > 0): the rows holding the scalar
ScalarHitRows(generated_ids, id) ==
    {r \in 1..Len(generated_ids) :
        Cardinality({c \in 1..Len(generated_ids[r]) : generated_ids[r][c] = id}) > 0}

\* a bug a reader could make: one row holding the scalar is enough
should_stop_any_row(generated_ids, stop_word_id) ==
    IF stop_word_id.scalar
    THEN ScalarHitRows(generated_ids, stop_word_id.ids[1]) # {}
    ELSE get_num_vector_found_in_matrix_rows(stop_word_id.ids, generated_ids)
             = Len(generated_ids)

\* should_stop: torch.mean(hits.float()) == 1 for a scalar (the mean of no rows
\* is NaN, which is not 1); found == shape[0] for a vector
should_stop(generated_ids, stop_word_id) ==
    IF stop_word_id.scalar
    THEN /\ Len(generated_ids) > 0
         /\ Cardinality(ScalarHitRows(generated_ids, stop_word_id.ids[1]))
                = Len(generated_ids)
    ELSE get_num_vector_found_in_matrix_rows(stop_word_id.ids, generated_ids)
             = Len(generated_ids)

\* __call__: True at the first stop word of the list for which should_stop holds
StoppingCall(words, ids, plen) ==
    \E k \in 1..Len(words) : should_stop(generated_ids_of(ids, plen), words[k])

\* the warning of __call__: the stop word that returns is the first that fires
StoppingWarns(words, ids, plen) ==
    /\ StoppingCall(words, ids, plen)
    /\ \A r \in 1..Len(ids) : Len(generated_ids_of(ids, plen)[r]) = 1

BoolStr(b) == IF b THEN "True" ELSE "False"

InitStop ==
    /\ stop_word_ids \in UNION {[1..n -> StopWords] : n \in StopWordCounts}
    /\ prompt_input_ids_len \in PromptLens
    /\ \E n \in BatchSizes :
          input_ids \in [1..n -> [1..prompt_input_ids_len -> Tokens]]
    /\ stop_result = "none"
    /\ stop_warned = FALSE

IdleStop ==
    /\ stop_word_ids = <<>>
    /\ prompt_input_ids_len = 0
    /\ input_ids = <<>>
    /\ stop_result = "none"
    /\ stop_warned = FALSE

\* One step of the library's generation loop: every row gets one more token and
\* the stopping criteria is called on the whole matrix; generation ends when it
\* returns True or max_new_tokens is reached.
GenerateStep ==
    /\ input_ids # <<>>
    /\ stop_result # "True"
    /\ Len(input_ids[1]) - prompt_input_ids_len < MaxGenLen
    /\ \E new \in [1..Len(input_ids) -> Tokens] :
          LET ids == [r \in 1..Len(input_ids) |-> Append(input_ids[r], new[r])]
          IN /\ input_ids' = ids
             /\ stop_result' = BoolStr(StoppingCall(stop_word_ids, ids, prompt_input_ids_len))
             /\ stop_warned' = (stop_warned
                                 \/ StoppingWarns(stop_word_ids, ids, prompt_input_ids_len))
    /\ UNCHANGED <<stop_word_ids, prompt_input_ids_len, notStop>>

----------------------------------------------------------------------------
(* check_disk_space *)

Dtypes == {"int8", "uint8", "float16", "bfloat16", "float32", "float64"}
NumelChoices == {1, 25}
ParamLists == SeqsOf([dtype : Dtypes, numel : NumelChoices], 0, MaxParams)

\* the if / elif chain over param.data.dtype
ParamBytes(param) ==
    IF param.dtype \in {"int8", "uint8"} THEN param.numel * 1
    ELSE IF param.dtype \in {"float16", "bfloat16"} THEN param.numel * 2
    ELSE IF param.dtype = "float32" THEN param.numel * 4
    ELSE param.numel * 4

\* the loop over model.parameters(): model_size_in_bytes after the first n
RECURSIVE SizeOfFirst(_, _)
SizeOfFirst(params, n) ==
    IF n = 0 THEN 0 ELSE SizeOfFirst(params, n - 1) + ParamBytes(params[n])

\* model_size_in_bytes at the comparison: doubled when use_deepspeed
model_size_in_bytes(params, deepspeed) ==
    IF deepspeed THEN SizeOfFirst(params, Len(params)) * 2
    ELSE SizeOfFirst(params, Len(params))

\* a bug a reader could make: the margin test with <= in place of <
EnoughSpaceOrEqual(size, free) == size * 103 <= free * 100

\* model_size_in_bytes * 1.03 < free. The product is a double; for sizes below
\* 2^46 it compares with an integer free exactly as size * 103 < free * 100.
EnoughSpace(size, free) == size * 103 < free * 100

\* a bug a reader could make: the raise left out
CheckDiskSpaceNeverRaises(params, free, deepspeed) == "passed"

\* check_disk_space: logs and returns, or raises ValueError
CheckDiskSpaceOutcome(params, free, deepspeed) ==
    IF EnoughSpace(model_size_in_bytes(params, deepspeed), free)
    THEN "passed" ELSE "raised"

InitDisk ==
    /\ disk_params \in ParamLists
    /\ disk_free \in 0..MaxFree
    /\ disk_use_deepspeed \in BOOLEAN
    /\ disk_outcome = "none"

IdleDisk ==
    /\ disk_params = <<>>
    /\ disk_free = 0
    /\ disk_use_deepspeed = FALSE
    /\ disk_outcome = "none"

check_disk_space ==
    /\ disk_outcome = "none"
    /\ disk_outcome' = CheckDiskSpaceOutcome(disk_params, disk_free, disk_use_deepspeed)
    /\ UNCHANGED <<disk_params, disk_free, disk_use_deepspeed, notDisk>>

----------------------------------------------------------------------------
(* save_checkpoint *)

Ranks == 0..(NumRanks - 1)

SaveModels == {<<[dtype |-> "int8", numel |-> 1]>>,
               <<[dtype |-> "float16", numel |-> 25]>>,
               <<[dtype |-> "float32", numel |-> 25]>>,
               <<[dtype |-> "bfloat16", numel |-> 25], [dtype |-> "uint8", numel |-> 25],
                 [dtype |-> "float64", numel |-> 1]>>}

\* a bug a reader could make: the rank test left out
AnyRank(p) == TRUE

\* cfg.environment._local_rank == 0
IsCoordinator(p) == p = 0

\* a bug a reader could make: the collective save put under the rank test
EntersCollectiveOnCoordinator(p) == path_given /\ p = 0

\* inside `if cfg.environment.use_deepspeed:`, the guard of the collective
\* save: `if path is not None:`, with no test of the rank
EntersCollective(p) == path_given

Write(p, target) == [rank |-> p, target |-> target]

InitSave ==
    /\ use_deepspeed \in BOOLEAN
    /\ path_given \in BOOLEAN
    /\ classification \in BOOLEAN
    /\ save_model \in SaveModels
    /\ save_free \in 0..MaxFree
    /\ save_pc = [p \in Ranks |-> "start"]
    /\ save_preflight = [p \in Ranks |-> "none"]
    /\ checkpoint_bound = [p \in Ranks |-> FALSE]
    /\ collective_calls = [p \in Ranks |-> 0]
    /\ files = {}
    /\ writes = {}

\* no save_checkpoint in progress, whatever the strategy
IdleSaveRun ==
    /\ path_given = FALSE
    /\ classification = FALSE
    /\ save_model = <<>>
    /\ save_free = 0
    /\ save_pc = <<>>
    /\ save_preflight = <<>>
    /\ checkpoint_bound = <<>>
    /\ collective_calls = <<>>
    /\ files = {}
    /\ writes = {}

IdleSave == use_deepspeed = FALSE /\ IdleSaveRun

saveConfig == <<use_deepspeed, path_given, classification, save_model, save_free>>

\* The training driver: the preflight for the destination, then save_checkpoint.
\* A raise of check_disk_space is fatal to the process; without a destination
\* there is nothing to check.
DriverPreflight(p) ==
    /\ save_pc[p] = "start"
    /\ IF path_given
       THEN LET outcome == CheckDiskSpaceOutcome(save_model, save_free, use_deepspeed)
            IN /\ save_preflight' = [save_preflight EXCEPT ![p] = outcome]
               /\ save_pc' = [save_pc EXCEPT
                                ![p] = IF outcome = "passed" THEN "call" ELSE "raised"]
       ELSE /\ save_pc' = [save_pc EXCEPT ![p] = "call"]
            /\ UNCHANGED save_preflight
    /\ UNCHANGED <<notSave, saveConfig, checkpoint_bound, collective_calls, files, writes>>

\* lines 107-111: the standard strategy. Only the coordinator builds the
\* checkpoint and, with a path, writes checkpoint.pth (torch.save can fail).
SaveStandard(p) ==
    /\ save_pc[p] = "call"
    /\ ~use_deepspeed
    /\ IF IsCoordinator(p)
       THEN /\ checkpoint_bound' = [checkpoint_bound EXCEPT ![p] = TRUE]
            /\ IF path_given
               THEN \E ok \in BOOLEAN :
                       IF ok
                       THEN /\ files' = files \cup {"checkpoint.pth"}
                            /\ writes' = writes \cup {Write(p, "checkpoint.pth")}
                            /\ save_pc' = [save_pc EXCEPT ![p] = "tail"]
                       ELSE /\ save_pc' = [save_pc EXCEPT ![p] = "failed"]
                            /\ UNCHANGED <<files, writes>>
               ELSE /\ save_pc' = [save_pc EXCEPT ![p] = "tail"]
                    /\ UNCHANGED <<files, writes>>
       ELSE /\ save_pc' = [save_pc EXCEPT ![p] = "tail"]
            /\ UNCHANGED <<checkpoint_bound, files, writes>>
    /\ UNCHANGED <<notSave, saveConfig, save_preflight, collective_calls>>

\* lines 94-95: the sharded strategy when the collective save is not entered
ShardedSkip(p) ==
    /\ save_pc[p] = "call"
    /\ use_deepspeed
    /\ ~EntersCollective(p)
    /\ save_pc' = [save_pc EXCEPT ![p] = "tail"]
    /\ UNCHANGED <<notSave, saveConfig, save_preflight, checkpoint_bound, collective_calls,
                   files, writes>>

\* line 97: model.save_checkpoint(path/ds_checkpoint), the engine's collective
\* save: the process writes its own shard into the directory, then waits for
\* the other processes of the group inside the call.
CollectiveEnter(p) ==
    /\ save_pc[p] = "call"
    /\ use_deepspeed
    /\ EntersCollective(p)
    /\ collective_calls' = [collective_calls EXCEPT ![p] = @ + 1]
    /\ files' = files \cup {"ds_checkpoint"}
    /\ writes' = writes \cup {Write(p, "ds_checkpoint")}
    /\ save_pc' = [save_pc EXCEPT ![p] = "in_collective"]
    /\ UNCHANGED <<notSave, saveConfig, save_preflight, checkpoint_bound>>

\* the collective returns once every process of the group has called it
CollectiveReturn(p) ==
    /\ save_pc[p] = "in_collective"
    /\ \A q \in Ranks : collective_calls[q] >= collective_calls[p]
    /\ save_pc' = [save_pc EXCEPT ![p] = IF IsCoordinator(p) THEN "convert" ELSE "tail"]
    /\ UNCHANGED <<notSave, saveConfig, save_preflight, checkpoint_bound, collective_calls,
                   files, writes>>

\* lines 99-106 on the coordinator: convert the shards, write checkpoint.pth,
\* remove the ds_checkpoint directory. The conversion and torch.save can raise,
\* and nothing catches it: the rmtree of line 106 is then not reached.
ConvertAndPersist(p) ==
    /\ save_pc[p] = "convert"
    /\ \E outcome \in {"ok", "convert_fails", "save_fails"} :
          /\ checkpoint_bound' = [checkpoint_bound EXCEPT ![p] = outcome # "convert_fails"]
          /\ IF outcome = "ok"
             THEN /\ files' = (files \cup {"checkpoint.pth"}) \ {"ds_checkpoint"}
                  /\ writes' = writes \cup {Write(p, "checkpoint.pth")}
                  /\ save_pc' = [save_pc EXCEPT ![p] = "tail"]
             ELSE /\ save_pc' = [save_pc EXCEPT ![p] = "failed"]
                  /\ UNCHANGED <<files, writes>>
    /\ UNCHANGED <<notSave, saveConfig, save_preflight, collective_calls>>

\* lines 113-120: the classification head, on the coordinator only. The first
\* argument reads `checkpoint` (unbound after the sharded branch without a
\* path), the second joins `path` (a TypeError when it is None).
ClassificationHead(p) ==
    /\ save_pc[p] = "tail"
    /\ IF IsCoordinator(p) /\ classification
       THEN IF ~checkpoint_bound[p] \/ ~path_given
            THEN /\ save_pc' = [save_pc EXCEPT ![p] = "failed"]
                 /\ UNCHANGED <<files, writes>>
            ELSE \E ok \in BOOLEAN :
                    IF ok
                    THEN /\ files' = files \cup {"classification_head.pth"}
                         /\ writes' = writes \cup {Write(p, "classification_head.pth")}
                         /\ save_pc' = [save_pc EXCEPT ![p] = "done"]
                    ELSE /\ save_pc' = [save_pc EXCEPT ![p] = "failed"]
                         /\ UNCHANGED <<files, writes>>
       ELSE /\ save_pc' = [save_pc EXCEPT ![p] = "done"]
            /\ UNCHANGED <<files, writes>>
    /\ UNCHANGED <<notSave, saveConfig, save_preflight, checkpoint_bound, collective_calls>>

NextSave ==
    \E p \in Ranks :
        \/ DriverPreflight(p)
        \/ SaveStandard(p)
        \/ ShardedSkip(p)
        \/ CollectiveEnter(p)
        \/ CollectiveReturn(p)
        \/ ConvertAndPersist(p)
        \/ ClassificationHead(p)

----------------------------------------------------------------------------
(* load_model_weights *)

\* A key is a sequence of atoms: the two wrapper prefixes, the two quantization
\* markers, and plain name segments.
KeyChoices == {<<"w">>, <<"b">>, <<"module.", "w">>, <<"_orig_mod.", "b">>,
               <<"w", "SCB">>, <<"b", "weight_format">>}
KeyOrder == <<<<"w">>, <<"b">>, <<"module.", "w">>, <<"_orig_mod.", "b">>,
              <<"w", "SCB">>, <<"b", "weight_format">>>>
Shapes == {1, 2}
TensorDtypes == {"float16", "uint8"}

\* a tensor of a state dict; val tells where its data comes from
Entry(key, shape, dtype, val) == [key |-> key, shape |-> shape, dtype |-> dtype, val |-> val]

KeysOf(dict) == {dict[i].key : i \in 1..Len(dict)}
Lookup(dict, key) == dict[CHOOSE i \in 1..Len(dict) : dict[i].key = key]
DistinctKeys(dict) == \A i, j \in 1..Len(dict) : dict[i].key = dict[j].key => i = j

\* d[key] = entry on a Python dict: a new key goes last, a present key keeps
\* its place and takes the new value
DictPut(dict, entry) ==
    IF entry.key \in KeysOf(dict)
    THEN [i \in 1..Len(dict) |-> IF dict[i].key = entry.key THEN entry ELSE dict[i]]
    ELSE Append(dict, entry)

\* dict.pop(key, None)
DictPop(dict, key) == SelectSeq(dict, LAMBDA e : e.key # key)

IsQuantized(dtype) == dtype \in {"int4", "int8"}
HasMarker(key) == \E i \in 1..Len(key) : key[i] \in {"SCB", "weight_format"}
IsInt8Tensor(dtype) == dtype \in {"int8", "uint8"}

\* a bug a reader could make: the marker test without the dtype test
IsFilteredOutAnyDtype(entry, bd) == HasMarker(entry.key)

\* the `if` of the comprehension (lines 138-141): the entry is left out
IsFilteredOut(entry, bd) == HasMarker(entry.key) /\ ~IsQuantized(bd)

\* the condition of lines 132-135, negated: the value is taken from the live model
IsReplaced(entry, bd) == ~IsQuantized(bd) /\ IsInt8Tensor(entry.dtype)

\* model_state_dict[k] of line 136 raises KeyError for a kept entry to replace
\* whose key the live model does not have
FilterKeyError(weights, live, bd) ==
    \E i \in 1..Len(weights) :
        /\ ~IsFilteredOut(weights[i], bd)
        /\ IsReplaced(weights[i], bd)
        /\ weights[i].key \notin KeysOf(live)

\* a bug a reader could make: an entry to replace is left out like a marker
FilterWeightsDropsReplaced(weights, live, bd) ==
    SelectSeq(weights, LAMBDA e : ~IsFilteredOut(e, bd) /\ ~IsReplaced(e, bd))

\* lines 130-142
FilterWeights(weights, live, bd) ==
    LET kept == SelectSeq(weights, LAMBDA e : ~IsFilteredOut(e, bd))
    IN [i \in 1..Len(kept) |->
           IF IsReplaced(kept[i], bd)
           THEN LET l == Lookup(live, kept[i].key)
                IN Entry(kept[i].key, l.shape, l.dtype, "live")
           ELSE kept[i]]

\* re.sub(r"^module\.", "", k)
StripModulePrefix(key) ==
    IF Len(key) > 0 /\ key[1] = "module." THEN Tail(key) ELSE key

\* k.replace("_orig_mod.", "")
RemoveOrigMod(key) == SelectSeq(key, LAMBDA a : a # "_orig_mod.")

\* {f(k): v for k, v in d.items()}
RECURSIVE RekeyFirst(_, _, _)
RekeyFirst(dict, F(_), n) ==
    IF n = 0 THEN <<>>
    ELSE DictPut(RekeyFirst(dict, F, n - 1), [dict[n] EXCEPT !.key = F(dict[n].key)])

\* lines 148-149
NormalizeKeys(dict) ==
    LET stripped == RekeyFirst(dict, StripModulePrefix, Len(dict))
    IN RekeyFirst(stripped, RemoveOrigMod, Len(stripped))

(* torch's Module.load_state_dict *)

SizeMismatchKeys(live, dict) ==
    SelectSeq([i \in 1..Len(live) |-> live[i].key],
              LAMBDA k : k \in KeysOf(dict) /\ Lookup(dict, k).shape # Lookup(live, k).shape)
MissingKeys(live, dict) ==
    SelectSeq([i \in 1..Len(live) |-> live[i].key], LAMBDA k : k \notin KeysOf(dict))
UnexpectedKeys(live, dict) ==
    SelectSeq([i \in 1..Len(dict) |-> dict[i].key], LAMBDA k : k \notin KeysOf(live))

LoadStateDictRaises(live, dict, strict) ==
    \/ SizeMismatchKeys(live, dict) # <<>>
    \/ strict /\ (MissingKeys(live, dict) # <<>> \/ UnexpectedKeys(live, dict) # <<>>)

\* the text of the RuntimeError, as a sequence of pieces: the key atoms and the
\* fixed pieces of text around them
RECURSIVE QuotedKeys(_)
QuotedKeys(keys) ==
    IF keys = <<>> THEN <<>>
    ELSE <<"'">> \o Head(keys) \o <<"'">>
         \o (IF Len(keys) > 1 THEN <<", ">> ELSE <<". ">>) \o QuotedKeys(Tail(keys))

RECURSIVE SizeMismatchLines(_)
SizeMismatchLines(keys) ==
    IF keys = <<>> THEN <<>>
    ELSE <<"<newline>", "size mismatch for ">> \o Head(keys)
         \o <<":", " copying a param with shape ... the shape in current model is ... .">>
         \o SizeMismatchLines(Tail(keys))

ErrorMessage(live, dict, strict) ==
    <<"Error(s) in loading state_dict for Model", ":">>
    \o (IF strict /\ MissingKeys(live, dict) # <<>>
        THEN <<"<newline>", "Missing key(s) in state_dict", ":", " ">>
             \o QuotedKeys(MissingKeys(live, dict))
        ELSE <<>>)
    \o (IF strict /\ UnexpectedKeys(live, dict) # <<>>
        THEN <<"<newline>", "Unexpected key(s) in state_dict", ":", " ">>
             \o QuotedKeys(UnexpectedKeys(live, dict))
        ELSE <<>>)
    \o SizeMismatchLines(SizeMismatchKeys(live, dict))

\* the first ":" at or after position j of msg on the same line, 0 if none
RECURSIVE NextColon(_, _)
NextColon(msg, j) ==
    IF j > Len(msg) \/ msg[j] = "<newline>" THEN 0
    ELSE IF msg[j] = ":" THEN j
    ELSE NextColon(msg, j + 1)

\* a bug a reader could make: every key the message names is taken
RECURSIVE FindAllNamedFrom(_, _)
FindAllNamedFrom(msg, i) ==
    IF i > Len(msg) THEN <<>>
    ELSE IF msg[i] \in {"size mismatch for ", "'"} /\ i < Len(msg)
    THEN LET j == CHOOSE n \in (i + 1)..Len(msg) :
                     /\ msg[n] \in {":", "'"}
                     /\ \A m \in (i + 1)..(n - 1) : msg[m] \notin {":", "'"}
         IN <<SubSeq(msg, i + 1, j - 1)>> \o FindAllNamedFrom(msg, j + 1)
    ELSE FindAllNamedFrom(msg, i + 1)

\* re.findall("size mismatch for (.*?):", str(e)), scanning from position i
RECURSIVE FindAllSizeMismatchFrom(_, _)
FindAllSizeMismatchFrom(msg, i) ==
    IF i > Len(msg) THEN <<>>
    ELSE IF msg[i] = "size mismatch for " /\ NextColon(msg, i + 1) # 0
    THEN <<SubSeq(msg, i + 1, NextColon(msg, i + 1) - 1)>>
         \o FindAllSizeMismatchFrom(msg, NextColon(msg, i + 1) + 1)
    ELSE FindAllSizeMismatchFrom(msg, i + 1)

\* the loop of lines 170-171
RECURSIVE PopAll(_, _)
PopAll(dict, names) ==
    IF names = <<>> THEN dict ELSE PopAll(DictPop(dict, Head(names)), Tail(names))

\* what load_state_dict leaves in the live model: a key of dict with the live
\* shape takes the value of dict, every other live tensor keeps its own
LoadedValues(live, dict) ==
    [i \in 1..Len(live) |->
        IF live[i].key \in KeysOf(dict)
            /\ Lookup(dict, live[i].key).shape = live[i].shape
        THEN Lookup(dict, live[i].key).val ELSE "live"]

\* a bug a reader could make: the strictness always given up
EffectiveStrictNever(strict, num_items, orig_num_items) == FALSE

\* lines 144-146: strict after the comparison of the two counts
EffectiveStrict(strict, num_items, orig_num_items) ==
    IF num_items # orig_num_items THEN FALSE ELSE strict

NoResult == [outcome |-> "none"]

\* load_model_weights, the whole call
LoadModelWeights(live, weights, strict, bd, rank) ==
    IF FilterKeyError(weights, live, bd)
    THEN [outcome |-> "raised", error |-> "KeyError", warned |-> FALSE,
          strict |-> strict, dropped |-> {}, replaced |-> {}]
    ELSE
    LET filtered == FilterWeights(weights, live, bd)
        dropped == {weights[i].key : i \in {n \in 1..Len(weights) :
                                                 IsFilteredOut(weights[n], bd)}}
        replaced == {filtered[i].key : i \in {n \in 1..Len(filtered) :
                                                  filtered[n].val = "live"}}
        eff == EffectiveStrict(strict, Len(filtered), Len(weights))
        handed == NormalizeKeys(filtered)
        common == [strict |-> eff, dropped |-> dropped, replaced |-> replaced,
                   handed |-> handed]
    IN IF ~LoadStateDictRaises(live, handed, TRUE)
       THEN common @@ [outcome |-> "loaded", error |-> "none", warned |-> FALSE,
                        removed |-> {}, final |-> handed,
                        values |-> LoadedValues(live, handed)]
       ELSE IF eff
       THEN common @@ [outcome |-> "raised", error |-> "RuntimeError", warned |-> FALSE]
       ELSE LET names == FindAllSizeMismatchFrom(ErrorMessage(live, handed, TRUE), 1)
                retry == PopAll(handed, names)
                removed == KeysOf(handed) \ KeysOf(retry)
            IN IF LoadStateDictRaises(live, retry, FALSE)
               THEN common @@ [outcome |-> "raised", error |-> "RuntimeError",
                                warned |-> (rank = 0), removed |-> removed]
               ELSE common @@ [outcome |-> "loaded", error |-> "none",
                                warned |-> (rank = 0), removed |-> removed,
                                final |-> retry, values |-> LoadedValues(live, retry)]

\* sequences of at most n entries with distinct keys
DictsOf(entries, n) == {d \in SeqsOf(entries, 0, n) : DistinctKeys(d)}

\* the keys of KeyOrder picked by a set of positions, in that order
RECURSIVE PickKeys(_, _)
PickKeys(picked, i) ==
    IF i > Len(KeyOrder) THEN <<>>
    ELSE (IF i \in picked THEN <<KeyOrder[i]>> ELSE <<>>) \o PickKeys(picked, i + 1)

\* the tensors a snapshot can hold: an SCB tensor is a float, a weight_format
\* tensor an 8-bit integer, any other tensor either
SnapshotEntries ==
    {e \in {Entry(k, sh, dt, "saved") : k \in KeyChoices, sh \in Shapes, dt \in TensorDtypes} :
        /\ "SCB" \in {e.key[i] : i \in 1..Len(e.key)} => e.dtype = "float16"
        /\ "weight_format" \in {e.key[i] : i \in 1..Len(e.key)} => e.dtype = "uint8"}

\* the live models a snapshot is loaded into: float16 tensors of shape 1
LoadLiveModels ==
    {[i \in 1..Len(PickKeys(picked, 1)) |->
         Entry(PickKeys(picked, 1)[i], 1, "float16", "live")] :
       picked \in {ps \in SUBSET (1..Len(KeyOrder)) : Cardinality(ps) \in {1, 2}}}

InitLoad ==
    /\ load_model \in LoadLiveModels
    /\ load_weights \in DictsOf(SnapshotEntries, MaxSnapshot)
    /\ load_strict \in BOOLEAN
    /\ backbone_dtype \in {"float16", "int8"}
    /\ load_rank \in {0, 1}
    /\ load_pc = "ready"
    /\ load_result = NoResult

IdleLoad ==
    /\ load_model = <<>>
    /\ load_weights = <<>>
    /\ load_strict = FALSE
    /\ backbone_dtype = "float16"
    /\ load_rank = 0
    /\ load_pc = "idle"
    /\ load_result = NoResult

(* the snapshot save_checkpoint writes under the key "model" *)

\* a model inside n DistributedDataParallel containers
Wrapped(entries, n) == [wrappers |-> n, module |-> entries]

\* unwrap_model: `while isinstance(model, options): model = model.module`
unwrap_model(model) == [model EXCEPT !.wrappers = 0]

\* model.state_dict(): each container puts "module." before every key
RECURSIVE PrefixKeys(_, _)
PrefixKeys(entries, n) ==
    IF n = 0 THEN entries
    ELSE [i \in 1..Len(entries) |->
             [PrefixKeys(entries, n - 1)[i] EXCEPT !.key = <<"module.">> \o @]]

state_dict(model) == PrefixKeys(model.module, model.wrappers)

\* get_fp32_state_dict_from_zero_checkpoint: the engine's module, its floating
\* point tensors as float32
Fp32StateDict(entries) ==
    [i \in 1..Len(entries) |->
        IF entries[i].dtype \in {"float16", "bfloat16"}
        THEN [entries[i] EXCEPT !.dtype = "float32"] ELSE entries[i]]

\* checkpoint["model"] of lines 100-104 (sharded) and 108-109 (standard)
SavedSnapshot(model, sharded) ==
    LET tensors == IF sharded THEN Fp32StateDict(model.module)
                   ELSE state_dict(unwrap_model(model))
    IN [i \in 1..Len(tensors) |-> [tensors[i] EXCEPT !.val = "saved"]]

LiveEntries == {Entry(k, sh, dt, "live") : k \in KeyChoices, sh \in Shapes,
                                          dt \in TensorDtypes}

\* a round trip: a model of any keys and dtypes is about to be saved; the
\* snapshot will be loaded, strictly, into a fresh model with the same entries
InitRoundTrip ==
    /\ load_model \in DictsOf(LiveEntries, MaxSnapshot) \ {<<>>}
    /\ load_weights = <<>>
    /\ load_strict = TRUE
    /\ backbone_dtype \in {"float16", "int8"}
    /\ load_rank \in {0, 1}
    /\ load_pc = "unsaved"
    /\ load_result = NoResult
    /\ use_deepspeed \in BOOLEAN

\* save_checkpoint on the coordinator, the model possibly inside a
\* DistributedDataParallel container under the standard strategy
SaveCheckpointSnapshot ==
    /\ load_pc = "unsaved"
    /\ \E n \in {0, 1} :
          load_weights' = SavedSnapshot(Wrapped(load_model, IF use_deepspeed THEN 0 ELSE n),
                                        use_deepspeed)
    /\ load_pc' = "ready"
    /\ UNCHANGED <<load_model, load_strict, backbone_dtype, load_rank, load_result, notLoad>>

load_model_weights ==
    /\ load_pc = "ready"
    /\ load_pc' = "done"
    /\ load_result' = LoadModelWeights(load_model, load_weights, load_strict,
                                        backbone_dtype, load_rank)
    /\ UNCHANGED <<load_model, load_weights, load_strict, backbone_dtype, load_rank, notLoad>>

----------------------------------------------------------------------------
(* run_inference *)

\* the processes of a run: one when it is not distributed
InfRanks(distributed) == IF distributed THEN Ranks ELSE {0}

NoFault == [at |-> 0, kind |-> "none"]

\* what can go wrong at a step of a loader of n batches: next(inf_it) raises
\* ("data"), or the output holds a NaN under mixed precision ("nan")
FaultsOf(n) == {NoFault} \cup [at : 1..n, kind : {"data", "nan"}]

InitInf ==
    /\ inf_distributed \in BOOLEAN
    /\ inf_len \in [InfRanks(inf_distributed) -> 0..MaxBatches]
    /\ inf_fault \in [InfRanks(inf_distributed) -> FaultsOf(MaxBatches)]
    /\ \A p \in InfRanks(inf_distributed) : inf_fault[p] \in FaultsOf(inf_len[p])
    /\ inf_pc = [p \in InfRanks(inf_distributed) |-> "loop"]
    /\ inf_started = [p \in InfRanks(inf_distributed) |-> 0]
    /\ inf_completed = [p \in InfRanks(inf_distributed) |-> 0]
    /\ inf_arrived = [p \in InfRanks(inf_distributed) |-> 0]

IdleInf ==
    /\ inf_distributed = FALSE
    /\ inf_len = <<>>
    /\ inf_fault = <<>>
    /\ inf_pc = <<>>
    /\ inf_started = <<>>
    /\ inf_completed = <<>>
    /\ inf_arrived = <<>>

\* lines 465-469: the next iteration of `for itr in range(len(dataloader))`
\* fetches its batch; a failure of next(inf_it) raises LLMDataException
StartStep(p) ==
    /\ p \in DOMAIN inf_pc
    /\ inf_pc[p] = "loop"
    /\ inf_started[p] < inf_len[p]
    /\ IF inf_fault[p] = [at |-> inf_started[p] + 1, kind |-> "data"]
       THEN /\ inf_pc' = [inf_pc EXCEPT ![p] = "raised"]
            /\ UNCHANGED inf_started
       ELSE /\ inf_pc' = [inf_pc EXCEPT ![p] = "step"]
            /\ inf_started' = [inf_started EXCEPT ![p] = @ + 1]
    /\ UNCHANGED <<inf_distributed, inf_len, inf_fault, inf_completed, inf_arrived, notInf>>

\* lines 471-542: the model runs on the batch; a NaN under mixed precision
\* raises LLMModelException; otherwise the output is stored and, when
\* distributed, the process calls torch.distributed.barrier()
FinishStep(p) ==
    /\ p \in DOMAIN inf_pc
    /\ inf_pc[p] = "step"
    /\ IF inf_fault[p] = [at |-> inf_started[p], kind |-> "nan"]
       THEN /\ inf_pc' = [inf_pc EXCEPT ![p] = "raised"]
            /\ UNCHANGED <<inf_completed, inf_arrived>>
       ELSE /\ inf_completed' = [inf_completed EXCEPT ![p] = @ + 1]
            /\ IF inf_distributed
               THEN /\ inf_arrived' = [inf_arrived EXCEPT ![p] = @ + 1]
                    /\ inf_pc' = [inf_pc EXCEPT ![p] = "barrier"]
               ELSE /\ inf_pc' = [inf_pc EXCEPT ![p] = "loop"]
                    /\ UNCHANGED inf_arrived
    /\ UNCHANGED <<inf_distributed, inf_len, inf_fault, inf_started, notInf>>

\* a bug a reader could make: a barrier that lets a process through at once
BarrierOpenAtOnce(p) == TRUE

\* torch.distributed.barrier() returns in a process once every process of the
\* group has made the same call
BarrierOpen(p) == \A q \in DOMAIN inf_pc : inf_arrived[q] >= inf_arrived[p]

\* line 542: the return of torch.distributed.barrier()
BarrierPass(p) ==
    /\ p \in DOMAIN inf_pc
    /\ inf_pc[p] = "barrier"
    /\ BarrierOpen(p)
    /\ inf_pc' = [inf_pc EXCEPT ![p] = "loop"]
    /\ UNCHANGED <<inf_distributed, inf_len, inf_fault, inf_started, inf_completed,
                   inf_arrived, notInf>>

\* lines 544-548: the loop is over, run_inference returns
ReturnOut(p) ==
    /\ p \in DOMAIN inf_pc
    /\ inf_pc[p] = "loop"
    /\ inf_started[p] = inf_len[p]
    /\ inf_pc' = [inf_pc EXCEPT ![p] = "returned"]
    /\ UNCHANGED <<inf_distributed, inf_len, inf_fault, inf_started, inf_completed,
                   inf_arrived, notInf>>

run_inference(p) == StartStep(p) \/ FinishStep(p) \/ BarrierPass(p) \/ ReturnOut(p)

----------------------------------------------------------------------------
(* contains_nan and the check of run_inference that uses it *)

\* the floating point values that matter to the check
FloatValues == {"finite", "nan", "inf", "-inf"}

\* entries of an output dict
OutputSizes == {0, 1, 2}

\* a value of the output dict: a torch.Tensor, or something else (a list)
OutputValues ==
    [tensor : {TRUE}, vals : SeqsOf(FloatValues, 1, MaxTensorLen)]
        \cup [tensor : {FALSE}, vals : SeqsOf(FloatValues, 1, 1)]

\* a bug a reader could make: every non-finite element counts
isnan_or_inf(x) == x \in {"nan", "inf", "-inf"}

\* torch.isnan, for one element
isnan(x) == x = "nan"

\* torch.isnan(val.detach().cpu()).sum()
NanCount(vals) == Cardinality({i \in 1..Len(vals) : isnan(vals[i])})

\* lines 416-425: the number of tensor values with a NaN is above zero
contains_nan(output) ==
    Cardinality({k \in 1..Len(output) :
                    output[k].tensor /\ NanCount(output[k].vals) > 0}) > 0

InitNan ==
    /\ nan_output \in UNION {[1..n -> OutputValues] : n \in OutputSizes}
    /\ nan_mixed_precision \in BOOLEAN
    /\ nan_outcome = "none"

IdleNan ==
    /\ nan_output = <<>>
    /\ nan_mixed_precision = FALSE
    /\ nan_outcome = "none"

\* lines 502-508 of run_inference
NanCheck ==
    /\ nan_outcome = "none"
    /\ nan_outcome' = IF contains_nan(nan_output) /\ nan_mixed_precision
                      THEN "raised" ELSE "passed"
    /\ UNCHANGED <<nan_output, nan_mixed_precision, notNan>>

----------------------------------------------------------------------------
(* TokenStoppingCriteria called step after step on a growing matrix *)

\* the stop-word lists of a followed run: none, one stop word of any kind, or
\* two scalar stop words
RunStopWordLists ==
    {<<>>} \cup {<<w>> : w \in StopWords}
           \cup {<<ScalarWord(t), ScalarWord(u)>> : t, u \in Tokens}

InitRun ==
    /\ stop_word_ids \in RunStopWordLists
    /\ prompt_input_ids_len \in PromptLens
    /\ \E n \in BatchSizes :
          input_ids \in [1..n -> [1..prompt_input_ids_len -> Tokens]]
    /\ stop_result = "none"
    /\ stop_warned = FALSE
    /\ run_results = <<>>

IdleRun == run_results = <<>>

\* One more call of __call__ (lines 772-782) after every row has grown by one
\* token; the caller goes on whatever the call returned.
CriteriaCall ==
    /\ input_ids # <<>>
    /\ Len(run_results) < MaxRunLen
    /\ \E new \in [1..Len(input_ids) -> Tokens] :
          LET ids == [r \in 1..Len(input_ids) |-> Append(input_ids[r], new[r])]
              res == BoolStr(StoppingCall(stop_word_ids, ids, prompt_input_ids_len))
          IN /\ input_ids' = ids
             /\ stop_result' = res
             /\ stop_warned' = (stop_warned
                                 \/ StoppingWarns(stop_word_ids, ids, prompt_input_ids_len))
             /\ run_results' = Append(run_results, res)
    /\ UNCHANGED <<stop_word_ids, prompt_input_ids_len, diskVars, saveVars, loadVars, infVars,
                   nanVars, loraVars>>

----------------------------------------------------------------------------
(* prepare_lora *)

\* segments of a dotted module name, and those in which "head" occurs
Segments == {"q", "v", "lm_head"}
HeadSegments == {"lm_head"}

\* a module name is its path: one or two segments
ModuleNames == SeqsOf(Segments, 1, 2)
ModuleKinds == {"Linear", "Conv1d", "Embedding"}

\* named_modules() below the backbone itself: distinct names, any order
NamedModules ==
    {ms \in SeqsOf([name : ModuleNames, kind : ModuleKinds], 0, MaxModules) :
        \A i, j \in 1..Len(ms) : ms[i].name = ms[j].name => i = j}

\* an item of the comma-separated list: a name, possibly with blanks around it
ConfiguredLists ==
    {<<>>, <<[name |-> "q", blanks |-> FALSE]>>,
     <<[name |-> "q", blanks |-> FALSE], [name |-> "v", blanks |-> TRUE]>>}

\* lora_target_module.strip()
Strip(item) == item.name

\* isinstance(module, (torch.nn.Linear, torch.nn.Conv1d))
IsDense(kind) == kind \in {"Linear", "Conv1d"}

\* a bug a reader could make: only the last segment is searched for "head"
HeadInShortName(name) == name[Len(name)] \in HeadSegments

\* "head" in name, name being the whole dotted path
HeadInName(name) == \E i \in 1..Len(name) : name[i] \in HeadSegments

\* name.split(".")[-1]
ShortName(name) == name[Len(name)]

\* lines 798-806, over the first n modules
RECURSIVE Discover(_, _)
Discover(modules, n) ==
    IF n = 0 THEN <<>>
    ELSE LET target_modules == Discover(modules, n - 1)
             m == modules[n]
         IN IF IsDense(m.kind) /\ ~HeadInName(m.name)
            THEN IF \E i \in 1..Len(target_modules) : target_modules[i] = ShortName(m.name)
                 THEN target_modules
                 ELSE Append(target_modules, ShortName(m.name))
            ELSE target_modules

\* lines 786-806
TargetModules(configured, modules) ==
    IF configured # <<>>
    THEN [i \in 1..Len(configured) |-> Strip(configured[i])]
    ELSE Discover(modules, Len(modules))

InitLora ==
    /\ lora_modules \in NamedModules
    /\ lora_configured \in ConfiguredLists
    /\ lora_targets = <<>>
    /\ lora_pc = "start"

IdleLora ==
    /\ lora_modules = <<>>
    /\ lora_configured = <<>>
    /\ lora_targets = <<>>
    /\ lora_pc = "idle"

prepare_lora ==
    /\ lora_pc = "start"
    /\ lora_targets' = TargetModules(lora_configured, lora_modules)
    /\ lora_pc' = "done"
    /\ UNCHANGED <<lora_modules, lora_configured, notLora>>

----------------------------------------------------------------------------
(* Specifications *)

NextStop == GenerateStep

StopInit == InitStop /\ IdleDisk /\ IdleSave /\ IdleLoad /\ IdleInf /\ IdleNan /\ IdleRun /\ IdleLora

SpecStop == StopInit /\ [][NextStop]_vars

NextDisk == check_disk_space

DiskInit == InitDisk /\ IdleStop /\ IdleSave /\ IdleLoad /\ IdleInf /\ IdleNan /\ IdleRun /\ IdleLora

SpecDisk == DiskInit /\ [][NextDisk]_vars

SaveInit == InitSave /\ IdleStop /\ IdleDisk /\ IdleLoad /\ IdleInf /\ IdleNan /\ IdleRun /\ IdleLora

SpecSave == SaveInit /\ [][NextSave]_vars

NextLoad == load_model_weights

LoadInit == InitLoad /\ IdleStop /\ IdleDisk /\ IdleSave /\ IdleInf /\ IdleNan /\ IdleRun /\ IdleLora

SpecLoad == LoadInit /\ [][NextLoad]_vars

NextRoundTrip == SaveCheckpointSnapshot \/ load_model_weights

RoundTripInit == InitRoundTrip /\ IdleStop /\ IdleDisk /\ IdleSaveRun /\ IdleInf /\ IdleNan /\ IdleRun /\ IdleLora

SpecRoundTrip == RoundTripInit /\ [][NextRoundTrip]_vars

NextInf ==
    \E p \in Ranks :
        \/ StartStep(p)
        \/ FinishStep(p)
        \/ BarrierPass(p)
        \/ ReturnOut(p)

InfInit == InitInf /\ IdleStop /\ IdleDisk /\ IdleSave /\ IdleLoad /\ IdleNan /\ IdleRun /\ IdleLora

\* every process keeps running: a step of run_inference that stays possible in
\* a process is eventually taken
SpecInf == InfInit /\ [][NextInf]_vars /\ \A p \in Ranks : WF_vars(run_inference(p))

NextNan == NanCheck

NanInit == InitNan /\ IdleStop /\ IdleDisk /\ IdleSave /\ IdleLoad /\ IdleInf /\ IdleRun /\ IdleLora

SpecNan == NanInit /\ [][NextNan]_vars

NextRun == CriteriaCall

RunInit == InitRun /\ IdleDisk /\ IdleSave /\ IdleLoad /\ IdleInf /\ IdleNan /\ IdleLora

SpecRun == RunInit /\ [][NextRun]_vars

NextLora == prepare_lora

LoraInit == InitLora /\ IdleStop /\ IdleDisk /\ IdleSave /\ IdleLoad /\ IdleInf /\ IdleNan /\ IdleRun

SpecLora == LoraInit /\ [][NextLora]_vars

----------------------------------------------------------------------------
(* Claims about TokenStoppingCriteria *)

\* w is a contiguous sub-sequence of row
ContainsContiguous(row, w) ==
    \E a \in 1..(Len(row) + 1) : \E b \in (a - 1)..Len(row) : SubSeq(row, a, b) = w

\* the tokens row r has generated so far, without its prompt columns
GeneratedRow(r) == SubSeq(input_ids[r], prompt_input_ids_len + 1, Len(input_ids[r]))

\* the same stop-word set with every scalar turned into the length-1 vector
AsVectors(words) == [k \in 1..Len(words) |-> VectorWord(words[k].ids)]

C12_StopWhenEveryRowHasAWord ==
    (/\ stop_result # "none"
     /\ \A r \in 1..Len(input_ids) :
           \E k \in 1..Len(stop_word_ids) :
              ContainsContiguous(GeneratedRow(r), stop_word_ids[k].ids))
        => stop_result = "True"

\* the first n tokens row r generated
GeneratedPrefix(r, n) ==
    SubSeq(input_ids[r], prompt_input_ids_len + 1, prompt_input_ids_len + n)

\* after n steps every row holds one and the same stop word of the list
CommonWordBy(n) ==
    \E k \in 1..Len(stop_word_ids) :
       \A r \in 1..Len(input_ids) :
          ContainsContiguous(GeneratedPrefix(r, n), stop_word_ids[k].ids)

----------------------------------------------------------------------------
(* Claims about check_disk_space *)

\* the byte width the estimate uses for a dtype
ByteWidth(dtype) ==
    CASE dtype \in {"int8", "uint8"} -> 1
      [] dtype \in {"float16", "bfloat16"} -> 2
      [] OTHER -> 4

\* the sum over the parameters of element count x byte width
RECURSIVE SumBytes(_)
SumBytes(params) ==
    IF params = <<>> THEN 0
    ELSE Head(params).numel * ByteWidth(Head(params).dtype) + SumBytes(Tail(params))

RequiredBytes == IF disk_use_deepspeed THEN 2 * SumBytes(disk_params)
                 ELSE SumBytes(disk_params)

\* C2 as stated: check_disk_space raises iff required x 1.03 > free, and passes
\* in every other case, required x 1.03 = free included.
C2_RaisesIffExceeds ==
    disk_outcome # "none" =>
        (disk_outcome = "raised" <=> RequiredBytes * 103 > disk_free * 100)

\* C2 amended: check_disk_space raises iff required x 1.03 >= free (it passes
\* only when required x 1.03 is strictly below free), with required the sum of
\* element count x byte width, doubled under the sharded strategy.
C2_RaisesIffNotBelow ==
    disk_outcome # "none" =>
        (disk_outcome = "raised" <=> RequiredBytes * 103 >= disk_free * 100)

\* C2 witness: the boundary, required x 1.03 = free, reached by the sharded
\* doubling of a two-parameter model, where the call raises
C2_Witness ==
    /\ disk_outcome = "raised"
    /\ disk_use_deepspeed
    /\ Len(disk_params) = 2
    /\ RequiredBytes > 0
    /\ RequiredBytes * 103 = disk_free * 100

----------------------------------------------------------------------------
(* Claims about save_checkpoint *)

\* the bytes the preflight requires for the model being saved
SaveRequired == IF use_deepspeed THEN 2 * SumBytes(save_model) ELSE SumBytes(save_model)

SaveExceedsFree == SaveRequired * 103 > save_free * 100

C4_OnlyRankZeroWrites ==
    \A w \in writes : w.rank = 0

\* C4 amended: checkpoint.pth and classification_head.pth are written by rank 0
\* only, and under the standard strategy rank 0 is the only writer; under the
\* sharded strategy a process of another rank writes under the destination
\* path too, but only its shard, into ds_checkpoint, through the collective save.
C4_OthersWriteOnlyShards ==
    \A w \in writes :
        w.rank # 0 => (use_deepspeed /\ w.target = "ds_checkpoint")

\* C4 witness: a finished sharded save in which rank 1 wrote a shard and rank 0
\* wrote checkpoint.pth and the classification head
C4_Witness ==
    /\ use_deepspeed
    /\ \A p \in Ranks : save_pc[p] = "done"
    /\ Write(1, "ds_checkpoint") \in writes
    /\ Write(0, "checkpoint.pth") \in writes
    /\ Write(0, "classification_head.pth") \in writes

\* C5: under the sharded strategy with a destination path, every process calls
\* the collective save exactly once (never twice, and once by the time it has
\* left it); a process waiting in the collective is never waiting for one that
\* skipped it, so the run cannot come to rest with a process inside the
\* collective; and after it only rank 0 converts and writes checkpoint.pth,
\* the other processes binding and writing nothing more.
C5_CollectiveCalledOnceByAll ==
    (use_deepspeed /\ path_given) =>
        /\ \A p \in Ranks :
              /\ collective_calls[p] <= 1
              /\ save_pc[p] \in {"convert", "tail", "done", "failed"}
                    => collective_calls[p] = 1
              /\ save_pc[p] = "in_collective" =>
                    \A q \in Ranks :
                       collective_calls[q] = 1 \/ save_pc[q] \in {"start", "call"}
        /\ (~ENABLED NextSave) => \A p \in Ranks : save_pc[p] # "in_collective"
        /\ \A p \in Ranks \ {0} :
              /\ save_pc[p] # "convert"
              /\ ~checkpoint_bound[p]
              /\ \A w \in writes : w.rank = p => w.target = "ds_checkpoint"

\* C5 witness: a finished sharded save: each process called the collective
\* once and rank 0 persisted checkpoint.pth
C5_Witness ==
    /\ use_deepspeed
    /\ path_given
    /\ \A p \in Ranks : save_pc[p] = "done" /\ collective_calls[p] = 1
    /\ "checkpoint.pth" \in files
    /\ ~classification

\* C6: whenever save_checkpoint has ended on the coordinating process after the
\* collective save created ds_checkpoint, whether it returned or raised, the
\* ds_checkpoint directory no longer exists.
C6_ShardDirAlwaysDeleted ==
    (use_deepspeed /\ collective_calls[0] >= 1 /\ save_pc[0] \in {"done", "failed"})
        => "ds_checkpoint" \notin files

\* C17: save_checkpoint called without a destination path writes no file and
\* returns without raising, for every strategy, rank and task type.
C17_NoPathNoWriteNoRaise ==
    ~path_given =>
        /\ writes = {}
        /\ files = {}
        /\ \A p \in DOMAIN save_pc : save_pc[p] # "failed"

----------------------------------------------------------------------------
(* Claims about load_model_weights *)

LoadDone == load_pc = "done"
WasHanded == LoadDone /\ load_result.error # "KeyError"

\* the dictionary handed to load_state_dict disagrees with the live model: a
\* key of one is not a key of the other, or a common key has two shapes
HandedMismatch ==
    \/ KeysOf(load_result.handed) # KeysOf(load_model)
    \/ \E i \in 1..Len(load_result.handed) : \E j \in 1..Len(load_model) :
          /\ load_result.handed[i].key = load_model[j].key
          /\ load_result.handed[i].shape # load_model[j].shape

\* C7 as stated: whenever the caller passes strict = true and a key or shape
\* mismatch exists, the call fails; a mismatch ends in a load only when the
\* caller passed strict = false.
C7_StrictCallerFails ==
    (WasHanded /\ HandedMismatch /\ load_strict) => load_result.outcome = "raised"

\* C7 amended: whenever the caller passes strict = true, no snapshot entry was
\* filtered out as a quantization marker, and a key or shape mismatch exists
\* between the dictionary handed to load_state_dict and the live model, the
\* call fails; a mismatch ends in a load, with a warning on rank 0 and none
\* elsewhere, only when the caller passed strict = false or an entry was
\* filtered out; without a mismatch the load succeeds with no warning.
C7_EffectiveStrictFails ==
    WasHanded =>
        /\ (HandedMismatch /\ load_strict /\ load_result.dropped = {})
              => load_result.outcome = "raised"
        /\ (HandedMismatch /\ load_result.outcome = "loaded")
              => /\ ~load_strict \/ load_result.dropped # {}
                 /\ load_result.warned = (load_rank = 0)
        /\ ~HandedMismatch => (load_result.outcome = "loaded" /\ ~load_result.warned)

\* C7 witness: a strict caller, nothing filtered out, a snapshot with the two
\* keys of the live model of which one has the wrong shape: the call raised
C7_Witness ==
    /\ WasHanded
    /\ load_strict
    /\ load_result.dropped = {}
    /\ Len(load_model) = 2
    /\ KeysOf(load_weights) = KeysOf(load_model)
    /\ HandedMismatch
    /\ load_result.outcome = "raised"

\* the keys torch reports as "size mismatch": in the dictionary and in the
\* live model, with different shapes
ShapeMismatched ==
    {k \in KeysOf(load_result.handed) \cap KeysOf(load_model) :
        Lookup(load_result.handed, k).shape # Lookup(load_model, k).shape}

TookFallback == WasHanded /\ HandedMismatch /\ ~load_result.strict

\* C8: when the strict attempt fails and strictness is off, the keys removed
\* before the non-strict retry are exactly the keys reported as shape-mismatched:
\* the retry gets every other key (missing in the live model, or matching) with
\* its entry unchanged, and succeeds.
C8_RemovedAreShapeMismatched ==
    TookFallback =>
        /\ load_result.removed = ShapeMismatched
        /\ load_result.outcome = "loaded"
        /\ KeysOf(load_result.final) = KeysOf(load_result.handed) \ ShapeMismatched
        /\ \A k \in KeysOf(load_result.final) :
              Lookup(load_result.final, k) = Lookup(load_result.handed, k)

\* C8 witness: a fallback in which the snapshot holds a shape-mismatched key
\* and a key the live model lacks, and the live model a key the snapshot lacks
C8_Witness ==
    /\ TookFallback
    /\ ShapeMismatched # {}
    /\ KeysOf(load_result.handed) \ KeysOf(load_model) # {}
    /\ KeysOf(load_model) \ KeysOf(load_result.handed) # {}
    /\ load_result.removed # {}

\* the snapshot keys holding `SCB` or `weight_format`
MarkerKeys == {load_weights[i].key : i \in {n \in 1..Len(load_weights) :
                                               HasMarker(load_weights[n].key)}}

\* the snapshot keys whose tensor is an 8-bit integer
Int8Keys == {load_weights[i].key : i \in {n \in 1..Len(load_weights) :
                                             load_weights[n].dtype \in {"int8", "uint8"}}}

NonQuantizedTarget == backbone_dtype \notin {"int4", "int8"}

\* C14: the effective strictness is forced to non-strict iff an entry was
\* dropped by the filter, that is iff the snapshot holds a key containing `SCB`
\* or `weight_format` and the target dtype is not quantized; replacing an 8-bit
\* integer value drops nothing; with nothing dropped the caller's strictness is
\* used unchanged.
C14_NonStrictIffDropped ==
    WasHanded =>
        /\ load_result.dropped = (IF NonQuantizedTarget THEN MarkerKeys ELSE {})
        /\ load_result.dropped # {} => ~load_result.strict
        /\ load_result.dropped = {} => (load_result.strict = load_strict)

\* C14 witness: a strict caller whose snapshot holds an 8-bit tensor that is
\* replaced and no marker key: the strictness stays on
C14_Witness ==
    /\ WasHanded
    /\ load_strict
    /\ NonQuantizedTarget
    /\ load_result.replaced # {}
    /\ load_result.dropped = {}
    /\ load_result.strict

\* C15: under a target dtype that is not quantized, every snapshot key whose
\* tensor is an 8-bit integer has its value replaced by the live model's tensor
\* and the replacement never fails, also for a key carrying the `module.` or
\* the `_orig_mod.` prefix (keys holding a quantization marker set aside,
\* and keys that name no tensor of the live model once the prefixes are gone).
C15_Int8ReplacedNeverFails ==
    (LoadDone /\ NonQuantizedTarget) =>
        \A k \in Int8Keys \ MarkerKeys :
            RemoveOrigMod(StripModulePrefix(k)) \in KeysOf(load_model) =>
                /\ load_result.error # "KeyError"
                /\ k \in load_result.replaced

----------------------------------------------------------------------------
(* Claims about the round trip save_checkpoint / load_model_weights *)

\* the load went through with nothing dropped, replaced, removed or renamed,
\* every live tensor took the saved value, and no warning was logged
CleanLoad ==
    /\ load_result.outcome = "loaded"
    /\ load_result.dropped = {}
    /\ load_result.replaced = {}
    /\ load_result.removed = {}
    /\ ~load_result.warned
    /\ [i \in 1..Len(load_result.final) |-> load_result.final[i].key]
          = [i \in 1..Len(load_model) |-> load_model[i].key]
    /\ \A i \in 1..Len(load_model) : load_result.values[i] = "saved"

\* C9 as stated: for every model (any key names, any dtypes) and every target
\* dtype, the snapshot save_checkpoint produces loads into the identical fresh
\* model with strict = true, with nothing dropped, replaced or renamed and no
\* warning.
C9_RoundTripAlwaysClean ==
    LoadDone => CleanLoad

\* no live key starts with the distributed-wrapper prefix or holds the
\* compilation-wrapper prefix
NoWrapperPrefix ==
    \A i \in 1..Len(load_model) :
        /\ Head(load_model[i].key) # "module."
        /\ \A j \in 1..Len(load_model[i].key) : load_model[i].key[j] # "_orig_mod."

\* under a target dtype that is not quantized, no live key holds SCB or
\* weight_format and no live tensor is an 8-bit integer
NoQuantizedState ==
    backbone_dtype \in {"int4", "int8"}
    \/ \A i \in 1..Len(load_model) :
          /\ \A j \in 1..Len(load_model[i].key) :
                load_model[i].key[j] \notin {"SCB", "weight_format"}
          /\ load_model[i].dtype \notin {"int8", "uint8"}

\* C9 amended: for every model none of whose keys starts with `module.` or
\* contains `_orig_mod.`, and, when the target dtype is not int4/int8, none of
\* whose keys contains `SCB` or `weight_format` and none of whose tensors is
\* int8/uint8, the snapshot save_checkpoint produces (either strategy) loads
\* into the identical fresh model with strict = true, with nothing dropped,
\* replaced, removed or renamed and no warning.
C9_RoundTripCleanWithoutArtifacts ==
    (LoadDone /\ NoWrapperPrefix /\ NoQuantizedState) => CleanLoad

\* C9 witness: a clean strict round trip of a two-tensor model holding an
\* 8-bit tensor and an SCB key under the int8 target dtype
C9_Witness ==
    /\ LoadDone
    /\ NoWrapperPrefix
    /\ backbone_dtype = "int8"
    /\ Len(load_model) = 2
    /\ \E i \in 1..2 : load_model[i].dtype = "uint8"
    /\ \E i \in 1..2 : HasMarker(load_model[i].key)
    /\ load_weights # load_model
    /\ CleanLoad

----------------------------------------------------------------------------
(* Claims about run_inference *)

InfAllReturned == \A p \in DOMAIN inf_pc : inf_pc[p] = "returned"

\* every loader yields the same number of batches and no step raises
InfEqualAndFaultless ==
    \A p, q \in DOMAIN inf_pc : inf_len[p] = inf_len[q] /\ inf_fault[p] = NoFault

\* C10: in distributed mode no rank has started step i+1 before every rank has
\* completed step i, so two ranks are never more than one step apart; and when
\* every rank's loader yields the same number of batches and no step raises,
\* every rank eventually returns from run_inference.
C10_BarrierAfterEveryStep ==
    /\ [](inf_distributed =>
             \A p, q \in DOMAIN inf_pc :
                /\ inf_started[p] <= inf_completed[q] + 1
                /\ inf_completed[p] <= inf_completed[q] + 1)
    /\ ((inf_distributed /\ InfEqualAndFaultless) => <>InfAllReturned)

\* C10 witness: a distributed run in which every rank went through the barrier
\* after each of its MaxBatches steps and returned
C10_Witness ==
    /\ inf_distributed
    /\ InfAllReturned
    /\ \A p \in DOMAIN inf_pc :
          inf_completed[p] = MaxBatches /\ inf_arrived[p] = MaxBatches

----------------------------------------------------------------------------
(* Claims about the NaN check *)

NanChecked == nan_outcome # "none"

\* the elements of the tensors of the output
TensorElements ==
    UNION {{nan_output[k].vals[i] : i \in 1..Len(nan_output[k].vals)} :
              k \in {j \in 1..Len(nan_output) : nan_output[j].tensor}}

\* C11 as stated: under mixed precision the step raises iff some tensor of the
\* output holds a non-finite value (NaN, +infinity or -infinity); without
\* mixed precision it never raises.
C11_RaisesIffNonFinite ==
    NanChecked =>
        (nan_outcome = "raised"
            <=> (nan_mixed_precision /\ TensorElements \cap {"nan", "inf", "-inf"} # {}))

\* C11 amended: under mixed precision the step raises iff some tensor of the
\* output holds a NaN; an infinity alone does not raise; without mixed
\* precision it never raises.
C11_RaisesIffNaN ==
    NanChecked =>
        (nan_outcome = "raised" <=> (nan_mixed_precision /\ "nan" \in TensorElements))

\* C11 witness: under mixed precision an output of two tensors, of which only
\* the second holds a NaN, and not in its first element, raised
C11_Witness ==
    /\ nan_outcome = "raised"
    /\ nan_mixed_precision
    /\ Len(nan_output) = 2
    /\ nan_output[1].tensor /\ nan_output[1].vals = <<"finite", "inf">>
    /\ nan_output[2].tensor /\ nan_output[2].vals = <<"finite", "nan">>

----------------------------------------------------------------------------
(* Claims about prepare_lora *)

AutoDiscovered == lora_pc = "done" /\ lora_configured = <<>>

\* the place of the first module with short name s among the modules in Which
FirstPlace(s, Which) ==
    CHOOSE i \in Which : lora_modules[i].name[Len(lora_modules[i].name)] = s
                         /\ \A j \in Which :
                               lora_modules[j].name[Len(lora_modules[j].name)] = s => i <= j

\* targets lists the short names of the modules in Which, once each, in the
\* order in which they are first met
ListsShortNamesOf(targets, Which) ==
    /\ {targets[i] : i \in 1..Len(targets)}
          = {lora_modules[i].name[Len(lora_modules[i].name)] : i \in Which}
    /\ \A i, j \in 1..Len(targets) : targets[i] = targets[j] => i = j
    /\ \A i, j \in 1..Len(targets) :
          i < j => FirstPlace(targets[i], Which) < FirstPlace(targets[j], Which)

DenseModules == {i \in 1..Len(lora_modules) : lora_modules[i].kind \in {"Linear", "Conv1d"}}

\* C16 as stated: the auto-discovered list holds the short names of the dense
\* modules whose short name does not contain "head", a dense module under a
\* parent whose name contains "head" included.
C16_ShortNameWithoutHead ==
    AutoDiscovered =>
        ListsShortNamesOf(lora_targets,
            {i \in DenseModules :
                lora_modules[i].name[Len(lora_modules[i].name)] \notin HeadSegments})

\* C16 amended: the auto-discovered list holds the short names of the dense
\* modules whose whole dotted name does not contain "head", each once, in
\* first-discovery order; a dense module under a parent whose name contains
\* "head" is left out.
C16_FullNameWithoutHead ==
    AutoDiscovered =>
        ListsShortNamesOf(lora_targets,
            {i \in DenseModules :
                \A k \in 1..Len(lora_modules[i].name) :
                    lora_modules[i].name[k] \notin HeadSegments})

\* C16 witness: a dense module below a "head" parent is left out while a dense
\* module elsewhere is listed
C16_Witness ==
    /\ AutoDiscovered
    /\ Len(lora_targets) = 1
    /\ \E i \in DenseModules :
          /\ Len(lora_modules[i].name) = 2
          /\ lora_modules[i].name[1] \in HeadSegments
          /\ lora_modules[i].name[2] \notin HeadSegments
          /\ lora_modules[i].name[2] # lora_targets[1]

====
